---------------------------- MODULE Spec2Model ----------------------------
(***************************************************************************)
(* Model of the bucketed buffer cache (src/bio.c) and of the per-CPU page  *)
(* allocator with stealing (src/kalloc.c).                                 *)
(*                                                                         *)
(* Buffer cache: kernel threads 1..NPROC, each on its own CPU, call bread, *)
(* brelse, bpin and bunpin.  Every spin-lock acquisition, every critical   *)
(* section and every iteration of the unlocked pool scan of bget is one    *)
(* step.  Buffers are 1..NBUF (0 is the null pointer), the sentinel head   *)
(* of bucket i is node NBUF+1+i, and the bucket lists are the next/prev    *)
(* pointers of the source.                                                 *)
(*                                                                         *)
(* Allocator: CPUs 0..NCPU-1 call kalloc and kfree; the free lists are the *)
(* head pointers of kmem[] and the next pointer stored in each free frame. *)
(***************************************************************************)
EXTENDS Integers, Sequences, FiniteSets

\* ------------------------------------------------------------------------
\* Sizes.  NBUCKET is the source's; the others bound the model.
\* ------------------------------------------------------------------------
NBUCKET == 13
NBUF == 2
NPROC == 2
MaxTicks == 1
MaxPin == 1
NULL == 0

Bufs == 1..NBUF
Procs == 1..NPROC
Buckets == 0..(NBUCKET - 1)
BucketHead(i) == NBUF + 1 + i
Nodes == 1..(NBUF + NBUCKET)

\* Arguments <<dev, blockno>> the callers pass to bread: two devices, two
\* blocks of bucket 0 and one of bucket 1.  <<0, 0>> is what a never-bound
\* buffer carries.
Keys == {<<0, 0>>, <<1, 0>>, <<1, 1>>}

\* The allocator: page size, number of frames of the heap and of CPUs.
PGSIZE == 2
NFRAMES == 3
NCPU == 3

CPUs == 0..(NCPU - 1)
NoCpu == NCPU
\* extern char end[]: the first address after the kernel, not page aligned
KernelEnd == PGSIZE + 1
PGROUNDUP(a) == ((a + PGSIZE - 1) \div PGSIZE) * PGSIZE
PHYSTOP == PGROUNDUP(KernelEnd) + NFRAMES * PGSIZE
\* The frames freerange hands to kfree:
\* for(p = PGROUNDUP(pa_start); p + PGSIZE <= pa_end; p += PGSIZE)
Frames == {a \in PGROUNDUP(KernelEnd)..PHYSTOP :
             a % PGSIZE = 0 /\ a + PGSIZE <= PHYSTOP}
\* Addresses callers pass to kfree: the frames, and below, inside and above
\* the heap an aligned and an unaligned address that is no frame.
Addrs == Frames \cup {0, PGSIZE, KernelEnd, PGROUNDUP(KernelEnd) + 1,
                      PHYSTOP, PHYSTOP + 1, PHYSTOP + PGSIZE}
\* What memset(pa, 1, PGSIZE) and memset(r, 5, PGSIZE) leave in r->next
Junk1 == 0 - 1
Junk5 == 0 - 5

VARIABLES
  \* struct buf fields, bcache.buf[]
  dev, blockno, valid, refcnt, lu_time,
  \* list pointers of buffers and of bucket[].head
  next, prev,
  \* b->lock (sleep-lock): 0 or the holding thread
  slk,
  \* bcache.lock and bucket[].lock: 0 or the holding thread
  bcache_lock, bucket_lock,
  \* global tick counter
  ticks,
  \* per thread: position, arguments dev/blockno, pointers b and lru,
  \* lru_hash_n, the lu_time loaded first for the comparison of the pool
  \* scan, and the value of ticks loaded by brelse
  pc, a_dev, a_blockno, bp, lru, lru_hash_n, lu_seen, ticks_seen,
  \* the callers: buffers got from bread and not yet released, with the
  \* block asked for; pins taken and not yet dropped
  holds, pins,
  \* history: bound by bget's eviction path since binit; number of
  \* virtio_disk_rw(b, 0) since b was last bound
  bound, nreads

bvars == <<dev, blockno, valid, refcnt, lu_time, next, prev, slk,
           bcache_lock, bucket_lock, ticks, pc, a_dev, a_blockno, bp, lru,
           lru_hash_n, lu_seen, ticks_seen, holds, pins, bound, nreads>>

VARIABLES
  \* kmem[].freelist, the run.next stored in each frame, kmem[].lock
  kfreelist, knext, klock,
  \* per CPU: position, local r, loop counter i, kfree's argument pa
  kpc, kr, ki, kpa,
  \* the callers: frames returned by kalloc and not yet passed to kfree
  kallocd,
  \* history, per kalloc call in progress: whether all free lists were
  \* empty at some instant of the call; free lists at the start of a call
  \* that no other CPU has run beside (<<>> otherwise)
  kseen, ksnap

kvars == <<kfreelist, knext, klock, kpc, kr, ki, kpa, kallocd, kseen, ksnap>>

vars == <<bvars, kvars>>

\* int hash_n = blockno % NBUCKET
Hash(n) == n % NBUCKET

\* binit's second loop, after k buffers: each buffer is pushed on the head
\* of bucket[0]'s list; the first loop made every head a ring of its own.
RECURSIVE BinitLinks(_)
BinitLinks(k) ==
  IF k = 0
  THEN [nx |-> [n \in Nodes |-> IF n \in Bufs THEN NULL ELSE n],
        pv |-> [n \in Nodes |-> IF n \in Bufs THEN NULL ELSE n]]
  ELSE LET s == BinitLinks(k - 1)
           h == BucketHead(0)
           first == s.nx[h]
           pv1 == [s.pv EXCEPT ![k] = h]
           pv2 == [pv1 EXCEPT ![first] = k]
       IN [nx |-> [s.nx EXCEPT ![k] = first, ![h] = k],
           pv |-> pv2]

BInit ==
  /\ dev = [b \in Bufs |-> 0]
  /\ blockno = [b \in Bufs |-> 0]
  /\ valid = [b \in Bufs |-> 0]
  /\ refcnt = [b \in Bufs |-> 0]
  /\ lu_time = [b \in Bufs |-> -1]
  /\ next = BinitLinks(NBUF).nx
  /\ prev = BinitLinks(NBUF).pv
  /\ slk = [b \in Bufs |-> 0]
  /\ bcache_lock = 0
  /\ bucket_lock = [i \in Buckets |-> 0]
  /\ ticks = 0
  /\ pc = [p \in Procs |-> "idle"]
  /\ a_dev = [p \in Procs |-> 0]
  /\ a_blockno = [p \in Procs |-> 0]
  /\ bp = [p \in Procs |-> NULL]
  /\ lru = [p \in Procs |-> NULL]
  /\ lru_hash_n = [p \in Procs |-> 0]
  /\ lu_seen = [p \in Procs |-> 0]
  /\ ticks_seen = [p \in Procs |-> 0]
  /\ holds = [p \in Procs |-> {}]
  /\ pins = [p \in Procs |-> [b \in Bufs |-> 0]]
  /\ bound = [b \in Bufs |-> FALSE]
  /\ nreads = [b \in Bufs |-> 0]

\* The scan with the device left out of the comparison.
RECURSIVE ScanFromAnyDev(_, _, _, _, _)
ScanFromAnyDev(n, h, d, bn, fuel) ==
  IF n = BucketHead(h) \/ fuel = 0 \/ n \notin Bufs THEN NULL
  ELSE IF blockno[n] = bn THEN n
  ELSE ScanFromAnyDev(next[n], h, d, bn, fuel - 1)

\* for(b = bucket[h].head.next; b != &bucket[h].head; b = b->next)
\*   if(b->dev == dev && b->blockno == blockno) ...
\* The first match from node n on, NULL when the head is reached.
RECURSIVE ScanFrom(_, _, _, _, _)
ScanFrom(n, h, d, bn, fuel) ==
  IF n = BucketHead(h) \/ fuel = 0 \/ n \notin Bufs THEN NULL
  ELSE IF dev[n] = d /\ blockno[n] = bn THEN n
  ELSE ScanFrom(next[n], h, d, bn, fuel - 1)

Lookup(h, d, bn) == ScanFrom(next[BucketHead(h)], h, d, bn, NBUF)

\* The fast-path scan of bget (bio.c 89-97)
FastLookup(p) == Lookup(Hash(a_blockno[p]), a_dev[p], a_blockno[p])

\* bget without its second scan: every miss of the fast path evicts.
RecheckSkipped(p) == NULL

\* The second scan of bget, under bcache.lock (bio.c 107-115)
Recheck(p) == Lookup(Hash(a_blockno[p]), a_dev[p], a_blockno[p])

HeldBufs(p) == {r[1] : r \in holds[p]}

\* Pins outstanding over all threads and buffers.
RECURSIVE SumPins(_)
SumPins(S) ==
  IF S = {} THEN 0
  ELSE LET x == CHOOSE y \in S : TRUE
       IN pins[x[1]][x[2]] + SumPins(S \ {x})

TotalPins == SumPins(Procs \X Bufs)

\* The buffer cache does not touch the allocator.
BOther == UNCHANGED kvars

\* Locals of a thread that has returned from its call.
Return(p) ==
  /\ pc' = [pc EXCEPT ![p] = "idle"]
  /\ a_dev' = [a_dev EXCEPT ![p] = 0]
  /\ a_blockno' = [a_blockno EXCEPT ![p] = 0]
  /\ bp' = [bp EXCEPT ![p] = NULL]
  /\ lru' = [lru EXCEPT ![p] = NULL]
  /\ lru_hash_n' = [lru_hash_n EXCEPT ![p] = 0]

\* bread(dev, blockno) -> bget: hash_n computed, acquire(&bucket[hash_n].lock)
\* (bio.c 84-86).  Callers do not ask for a block they still hold.
BgetAcquire(p, d, bn) ==
  /\ pc[p] = "idle"
  /\ \A r \in holds[p] : <<r[2], r[3]>> # <<d, bn>>
  /\ bucket_lock[Hash(bn)] = 0
  /\ bucket_lock' = [bucket_lock EXCEPT ![Hash(bn)] = p]
  /\ a_dev' = [a_dev EXCEPT ![p] = d]
  /\ a_blockno' = [a_blockno EXCEPT ![p] = bn]
  /\ pc' = [pc EXCEPT ![p] = "scan1"]
  /\ UNCHANGED <<dev, blockno, valid, refcnt, lu_time, next, prev, slk,
                 bcache_lock, ticks, bp, lru, lru_hash_n, holds, pins, bound,
                 nreads, lu_seen, ticks_seen>>
  /\ BOther

\* The fast path that keeps the bucket lock on a miss.
BgetScan1KeepsLock(p) ==
  /\ pc[p] = "scan1"
  /\ LET h == Hash(a_blockno[p])
         b == FastLookup(p)
     IN IF b # NULL
        THEN /\ bucket_lock' = [bucket_lock EXCEPT ![h] = 0]
             /\ refcnt' = [refcnt EXCEPT ![b] = @ + 1]
             /\ bp' = [bp EXCEPT ![p] = b]
             /\ pc' = [pc EXCEPT ![p] = "sleep"]
        ELSE /\ pc' = [pc EXCEPT ![p] = "acq_global"]
             /\ UNCHANGED <<refcnt, bp, bucket_lock>>
  /\ UNCHANGED <<dev, blockno, valid, lu_time, next, prev, slk, bcache_lock,
                 ticks, a_dev, a_blockno, lru, lru_hash_n, holds, pins,
                 bound, nreads, lu_seen, ticks_seen>>
  /\ BOther

\* The fast path (bio.c 89-99): scan bucket[hash_n]; on a hit refcnt++ and
\* release the bucket lock, on a miss release it.
BgetScan1(p) ==
  /\ pc[p] = "scan1"
  /\ LET h == Hash(a_blockno[p])
         b == FastLookup(p)
     IN /\ bucket_lock' = [bucket_lock EXCEPT ![h] = 0]
        /\ IF b # NULL
           THEN /\ refcnt' = [refcnt EXCEPT ![b] = @ + 1]
                /\ bp' = [bp EXCEPT ![p] = b]
                /\ pc' = [pc EXCEPT ![p] = "sleep"]
           ELSE /\ pc' = [pc EXCEPT ![p] = "acq_global"]
                /\ UNCHANGED <<refcnt, bp>>
  /\ UNCHANGED <<dev, blockno, valid, lu_time, next, prev, slk, bcache_lock,
                 ticks, a_dev, a_blockno, lru, lru_hash_n, holds, pins,
                 bound, nreads, lu_seen, ticks_seen>>
  /\ BOther

\* acquire(&bcache.lock) (bio.c 103)
BgetAcquireGlobal(p) ==
  /\ pc[p] = "acq_global"
  /\ bcache_lock = 0
  /\ bcache_lock' = p
  /\ pc' = [pc EXCEPT ![p] = "acq_bucket"]
  /\ UNCHANGED <<dev, blockno, valid, refcnt, lu_time, next, prev, slk,
                 bucket_lock, ticks, a_dev, a_blockno, bp, lru, lru_hash_n,
                 holds, pins, bound, nreads, lu_seen, ticks_seen>>
  /\ BOther

\* acquire(&bucket[hash_n].lock) under bcache.lock (bio.c 104)
BgetAcquireBucket(p) ==
  /\ pc[p] = "acq_bucket"
  /\ bucket_lock[Hash(a_blockno[p])] = 0
  /\ bucket_lock' = [bucket_lock EXCEPT ![Hash(a_blockno[p])] = p]
  /\ pc' = [pc EXCEPT ![p] = "scan2"]
  /\ UNCHANGED <<dev, blockno, valid, refcnt, lu_time, next, prev, slk,
                 bcache_lock, ticks, a_dev, a_blockno, bp, lru, lru_hash_n,
                 holds, pins, bound, nreads, lu_seen, ticks_seen>>
  /\ BOther

\* The second look that forgets refcnt++ on a hit.
BgetScan2NoRef(p) ==
  /\ pc[p] = "scan2"
  /\ LET h == Hash(a_blockno[p])
         b == Recheck(p)
     IN IF b # NULL
        THEN /\ bucket_lock' = [bucket_lock EXCEPT ![h] = 0]
             /\ bp' = [bp EXCEPT ![p] = b]
             /\ pc' = [pc EXCEPT ![p] = "rel_global"]
             /\ UNCHANGED lru
        ELSE /\ lru' = [lru EXCEPT ![p] = NULL]
             /\ bp' = [bp EXCEPT ![p] = 1]
             /\ pc' = [pc EXCEPT ![p] = "lru_scan"]
             /\ UNCHANGED bucket_lock
  /\ UNCHANGED <<dev, blockno, valid, refcnt, lu_time, next, prev, slk,
                 bcache_lock, ticks, a_dev, a_blockno, lru_hash_n, lu_seen,
                 ticks_seen, holds, pins, bound, nreads>>
  /\ BOther

\* The second look under both locks (bio.c 107-110, 119): on a hit
\* refcnt++ and release of the bucket lock; on a miss lru = 0 and the pool
\* scan starts at bcache.buf.
BgetScan2(p) ==
  /\ pc[p] = "scan2"
  /\ LET h == Hash(a_blockno[p])
         b == Recheck(p)
     IN IF b # NULL
        THEN /\ refcnt' = [refcnt EXCEPT ![b] = @ + 1]
             /\ bucket_lock' = [bucket_lock EXCEPT ![h] = 0]
             /\ bp' = [bp EXCEPT ![p] = b]
             /\ pc' = [pc EXCEPT ![p] = "rel_global"]
             /\ UNCHANGED lru
        ELSE /\ lru' = [lru EXCEPT ![p] = NULL]
             /\ bp' = [bp EXCEPT ![p] = 1]
             /\ pc' = [pc EXCEPT ![p] = "lru_scan"]
             /\ UNCHANGED <<refcnt, bucket_lock>>
  /\ UNCHANGED <<dev, blockno, valid, lu_time, next, prev, slk, bcache_lock,
                 ticks, a_dev, a_blockno, lru_hash_n, lu_seen, ticks_seen,
                 holds, pins, bound, nreads>>
  /\ BOther

\* bget that goes to sleep on the buffer with bcache.lock held.
BgetReleaseGlobalSkipped(p) ==
  /\ pc[p] = "rel_global"
  /\ pc' = [pc EXCEPT ![p] = "sleep"]
  /\ UNCHANGED <<dev, blockno, valid, refcnt, lu_time, next, prev, slk,
                 bcache_lock, bucket_lock, ticks, a_dev, a_blockno, bp, lru,
                 lru_hash_n, lu_seen, ticks_seen, holds, pins, bound,
                 nreads>>
  /\ BOther

\* release(&bcache.lock) after a hit of the second look or after the
\* eviction (bio.c 111, 168); the bucket lock is released already.
BgetReleaseGlobal(p) ==
  /\ pc[p] = "rel_global"
  /\ bcache_lock' = 0
  /\ pc' = [pc EXCEPT ![p] = "sleep"]
  /\ UNCHANGED <<dev, blockno, valid, refcnt, lu_time, next, prev, slk,
                 bucket_lock, ticks, a_dev, a_blockno, bp, lru, lru_hash_n,
                 lu_seen, ticks_seen, holds, pins, bound, nreads>>
  /\ BOther

\* b->lu_time < lru->lu_time, on the two values loaded.  lu_time is
\* compared as a signed quantity: -1, set by binit, is below every tick.
LruLess(vb, vl) == vb < vl

\* One iteration of the pool scan, up to the comparison (bio.c 125-134):
\* b->refcnt is loaded; a buffer in use is passed over, a free one becomes
\* lru when lru == 0, and is compared with lru otherwise.  The scan holds
\* bcache.lock and bucket[hash_n].lock only, so the fields of buffers of
\* other buckets are read while other threads write them.
BgetLruScan(p) ==
  /\ pc[p] = "lru_scan"
  /\ bp[p] \in Bufs
  /\ IF refcnt[bp[p]] # 0
     THEN /\ bp' = [bp EXCEPT ![p] = @ + 1]
          /\ UNCHANGED <<lru, pc>>
     ELSE IF lru[p] = NULL
     THEN /\ lru' = [lru EXCEPT ![p] = bp[p]]
          /\ bp' = [bp EXCEPT ![p] = @ + 1]
          /\ UNCHANGED pc
     ELSE /\ pc' = [pc EXCEPT ![p] = "lru_cmp"]
          /\ UNCHANGED <<bp, lru>>
  /\ UNCHANGED <<dev, blockno, valid, refcnt, lu_time, next, prev, slk,
                 bcache_lock, bucket_lock, ticks, a_dev, a_blockno,
                 lru_hash_n, lu_seen, ticks_seen, holds, pins, bound,
                 nreads>>
  /\ BOther

\* The first load of b->lu_time < lru->lu_time (bio.c 130).  The order in
\* which the two operands are loaded is not fixed by the language: w says
\* which one is loaded first, b->lu_time ("b") or lru->lu_time ("l").
BgetLruLoad(p, w) ==
  /\ pc[p] = "lru_cmp"
  /\ lu_seen' = [lu_seen EXCEPT ![p] = IF w = "b" THEN lu_time[bp[p]]
                                       ELSE lu_time[lru[p]]]
  /\ pc' = [pc EXCEPT ![p] = IF w = "b" THEN "lru_cmp_l" ELSE "lru_cmp_b"]
  /\ UNCHANGED <<dev, blockno, valid, refcnt, lu_time, next, prev, slk,
                 bcache_lock, bucket_lock, ticks, a_dev, a_blockno, bp, lru,
                 lru_hash_n, holds, pins, bound, nreads, ticks_seen>>
  /\ BOther

\* The second load and the comparison (bio.c 130-131): lru = b when
\* b->lu_time is the smaller; on to the next buffer.
BgetLruCompare(p) ==
  /\ pc[p] \in {"lru_cmp_l", "lru_cmp_b"}
  /\ LET vb == IF pc[p] = "lru_cmp_l" THEN lu_seen[p] ELSE lu_time[bp[p]]
         vl == IF pc[p] = "lru_cmp_l" THEN lu_time[lru[p]] ELSE lu_seen[p]
     IN lru' = [lru EXCEPT ![p] = IF LruLess(vb, vl) THEN bp[p] ELSE @]
  /\ bp' = [bp EXCEPT ![p] = @ + 1]
  /\ lu_seen' = [lu_seen EXCEPT ![p] = 0]
  /\ pc' = [pc EXCEPT ![p] = "lru_scan"]
  /\ UNCHANGED <<dev, blockno, valid, refcnt, lu_time, next, prev, slk,
                 bcache_lock, bucket_lock, ticks, a_dev, a_blockno,
                 lru_hash_n, holds, pins, bound, nreads, ticks_seen>>
  /\ BOther

\* The scan ended with lru == 0: if(lru) is skipped and while(lru == 0)
\* starts the scan again (bio.c 121, 136, 173).
BgetLruNone(p) ==
  /\ pc[p] = "lru_scan"
  /\ bp[p] = NBUF + 1
  /\ lru[p] = NULL
  /\ bp' = [bp EXCEPT ![p] = 1]
  /\ UNCHANGED <<dev, blockno, valid, refcnt, lu_time, next, prev, slk,
                 bcache_lock, bucket_lock, ticks, pc, a_dev, a_blockno, lru,
                 lru_hash_n, holds, pins, bound, nreads, lu_seen,
                 ticks_seen>>
  /\ BOther

\* bget that goes on to the re-check without the victim's bucket lock.
BgetLruFoundNoLock(p) ==
  /\ pc[p] = "lru_scan"
  /\ bp[p] = NBUF + 1
  /\ lru[p] # NULL
  /\ lru_hash_n' = [lru_hash_n EXCEPT ![p] = Hash(blockno[lru[p]])]
  /\ pc' = [pc EXCEPT ![p] = "recheck"]
  /\ UNCHANGED <<dev, blockno, valid, refcnt, lu_time, next, prev, slk,
                 bcache_lock, bucket_lock, ticks, a_dev, a_blockno, bp, lru,
                 holds, pins, bound, nreads, lu_seen, ticks_seen>>
  /\ BOther

\* The scan ended with a candidate (bio.c 136-141): lru_hash_n is computed
\* and, when it differs from hash_n, bucket[lru_hash_n].lock is acquired.
BgetLruFound(p) ==
  /\ pc[p] = "lru_scan"
  /\ bp[p] = NBUF + 1
  /\ lru[p] # NULL
  /\ LET lh == Hash(blockno[lru[p]])
     IN /\ lru_hash_n' = [lru_hash_n EXCEPT ![p] = lh]
        /\ IF lh # Hash(a_blockno[p])
           THEN /\ bucket_lock[lh] = 0
                /\ bucket_lock' = [bucket_lock EXCEPT ![lh] = p]
           ELSE UNCHANGED bucket_lock
  /\ pc' = [pc EXCEPT ![p] = "recheck"]
  /\ UNCHANGED <<dev, blockno, valid, refcnt, lu_time, next, prev, slk,
                 bcache_lock, ticks, a_dev, a_blockno, bp, lru, holds, pins,
                 bound, nreads, lu_seen, ticks_seen>>
  /\ BOther

\* bget without the re-check of the candidate's refcnt.
LruTakenNever(l) == FALSE

\* if(lru->refcnt != 0)
LruTaken(l) == refcnt[l] # 0

\* The candidate was taken meanwhile (bio.c 143-149): lru = 0, release the
\* victim's bucket lock when distinct, continue with a new scan.
BgetRecheckRetry(p) ==
  /\ pc[p] = "recheck"
  /\ LruTaken(lru[p])
  /\ lru' = [lru EXCEPT ![p] = NULL]
  /\ bucket_lock' = IF lru_hash_n[p] # Hash(a_blockno[p])
                    THEN [bucket_lock EXCEPT ![lru_hash_n[p]] = 0]
                    ELSE bucket_lock
  /\ bp' = [bp EXCEPT ![p] = 1]
  /\ pc' = [pc EXCEPT ![p] = "lru_scan"]
  /\ UNCHANGED <<dev, blockno, valid, refcnt, lu_time, next, prev, slk,
                 bcache_lock, ticks, a_dev, a_blockno, lru_hash_n, holds,
                 pins, bound, nreads, lu_seen, ticks_seen>>
  /\ BOther

\* bget that leaves the victim in its old list.
BgetUnlinkSkipped(p) ==
  /\ pc[p] = "recheck"
  /\ ~LruTaken(lru[p])
  /\ bucket_lock' = IF lru_hash_n[p] # Hash(a_blockno[p])
                    THEN [bucket_lock EXCEPT ![lru_hash_n[p]] = 0]
                    ELSE bucket_lock
  /\ pc' = [pc EXCEPT ![p] = "rebind"]
  /\ UNCHANGED <<dev, blockno, valid, refcnt, lu_time, next, prev, slk,
                 bcache_lock, ticks, a_dev, a_blockno, bp, lru, lru_hash_n,
                 holds, pins, bound, nreads, lu_seen, ticks_seen>>
  /\ BOther

\* The candidate is still free: unlink it from bucket[lru_hash_n] and
\* release that bucket's lock when distinct (bio.c 143, 152-157).
BgetUnlink(p) ==
  /\ pc[p] = "recheck"
  /\ ~LruTaken(lru[p])
  /\ LET l == lru[p]
         pv1 == [prev EXCEPT ![next[l]] = prev[l]]
     IN /\ prev' = pv1
        /\ next' = [next EXCEPT ![pv1[l]] = next[l]]
  /\ bucket_lock' = IF lru_hash_n[p] # Hash(a_blockno[p])
                    THEN [bucket_lock EXCEPT ![lru_hash_n[p]] = 0]
                    ELSE bucket_lock
  /\ pc' = [pc EXCEPT ![p] = "rebind"]
  /\ UNCHANGED <<dev, blockno, valid, refcnt, lu_time, slk, bcache_lock,
                 ticks, a_dev, a_blockno, bp, lru, lru_hash_n, holds, pins,
                 bound, nreads, lu_seen, ticks_seen>>
  /\ BOther

\* Rebind the victim and push it on the head of bucket[hash_n], then
\* release bucket[hash_n].lock (bio.c 158-167).
BgetRebind(p) ==
  /\ pc[p] = "rebind"
  /\ LET l == lru[p]
         h == Hash(a_blockno[p])
         hd == BucketHead(h)
         first == next[hd]
         pv1 == [prev EXCEPT ![l] = hd]
         nx1 == [next EXCEPT ![l] = first]
     IN /\ dev' = [dev EXCEPT ![l] = a_dev[p]]
        /\ blockno' = [blockno EXCEPT ![l] = a_blockno[p]]
        /\ valid' = [valid EXCEPT ![l] = 0]
        /\ refcnt' = [refcnt EXCEPT ![l] = 1]
        /\ prev' = [pv1 EXCEPT ![first] = l]
        /\ next' = [nx1 EXCEPT ![hd] = l]
        /\ bucket_lock' = [bucket_lock EXCEPT ![h] = 0]
        /\ bp' = [bp EXCEPT ![p] = l]
        /\ bound' = [bound EXCEPT ![l] = TRUE]
        /\ nreads' = [nreads EXCEPT ![l] = 0]
  /\ pc' = [pc EXCEPT ![p] = "rel_global"]
  /\ UNCHANGED <<lu_time, slk, bcache_lock, ticks, a_dev, a_blockno, lru,
                 lru_hash_n, lu_seen, ticks_seen, holds, pins>>
  /\ BOther

\* acquiresleep that does not wait for the holder.
BgetSleepNoWait(p) ==
  /\ pc[p] = "sleep"
  /\ slk' = [slk EXCEPT ![bp[p]] = p]
  /\ pc' = [pc EXCEPT ![p] = "bread"]
  /\ UNCHANGED <<dev, blockno, valid, refcnt, lu_time, next, prev,
                 bcache_lock, bucket_lock, ticks, a_dev, a_blockno, bp, lru,
                 lru_hash_n, holds, pins, bound, nreads, lu_seen,
                 ticks_seen>>
  /\ BOther

\* acquiresleep(&b->lock); return b (bio.c 94-95, 112-113, 169-170): waits
\* until the sleep-lock is free.
BgetSleep(p) ==
  /\ pc[p] = "sleep"
  /\ slk[bp[p]] = 0
  /\ slk' = [slk EXCEPT ![bp[p]] = p]
  /\ pc' = [pc EXCEPT ![p] = "bread"]
  /\ UNCHANGED <<dev, blockno, valid, refcnt, lu_time, next, prev,
                 bcache_lock, bucket_lock, ticks, a_dev, a_blockno, bp, lru,
                 lru_hash_n, holds, pins, bound, nreads, lu_seen,
                 ticks_seen>>
  /\ BOther

\* bread that reads the disk whatever b->valid says.
BreadMustReadAlways(b) == TRUE

\* if(!b->valid)
BreadMustRead(b) == valid[b] = 0

\* bread after bget, buffer not valid (bio.c 186-187): virtio_disk_rw(b, 0)
\* is issued; the thread sleeps until the disk is done.
BreadDisk(p) ==
  /\ pc[p] = "bread"
  /\ BreadMustRead(bp[p])
  /\ nreads' = [nreads EXCEPT ![bp[p]] = @ + 1]
  /\ pc' = [pc EXCEPT ![p] = "disk"]
  /\ UNCHANGED <<dev, blockno, valid, refcnt, lu_time, next, prev, slk,
                 bcache_lock, bucket_lock, ticks, a_dev, a_blockno, bp, lru,
                 lru_hash_n, holds, pins, bound, lu_seen, ticks_seen>>
  /\ BOther

\* The disk read is done: b->valid = 1; return b (bio.c 187-190)
BreadDiskDone(p) ==
  /\ pc[p] = "disk"
  /\ valid' = [valid EXCEPT ![bp[p]] = 1]
  /\ holds' = [holds EXCEPT ![p] = @ \cup {<<bp[p], a_dev[p], a_blockno[p]>>}]
  /\ Return(p)
  /\ UNCHANGED <<dev, blockno, refcnt, lu_time, next, prev, slk, bcache_lock,
                 bucket_lock, ticks, pins, bound, nreads, lu_seen,
                 ticks_seen>>
  /\ BOther

\* bread after bget, buffer valid (bio.c 186, 190): return b
BreadReturn(p) ==
  /\ pc[p] = "bread"
  /\ ~BreadMustRead(bp[p])
  /\ holds' = [holds EXCEPT ![p] = @ \cup {<<bp[p], a_dev[p], a_blockno[p]>>}]
  /\ Return(p)
  /\ UNCHANGED <<dev, blockno, valid, refcnt, lu_time, next, prev, slk,
                 bcache_lock, bucket_lock, ticks, pins, bound, nreads,
                 lu_seen, ticks_seen>>
  /\ BOther

\* brelse(b) by the holder of b's sleep-lock (bio.c 207-210):
\* holdingsleep passes, releasesleep(&b->lock).
BrelseUnlock(p, b) ==
  /\ pc[p] = "idle"
  /\ b \in HeldBufs(p)
  /\ slk[b] = p
  /\ slk' = [slk EXCEPT ![b] = 0]
  /\ bp' = [bp EXCEPT ![p] = b]
  /\ holds' = [holds EXCEPT ![p] = {r \in @ : r[1] # b}]
  /\ pc' = [pc EXCEPT ![p] = "brelse_acq"]
  /\ UNCHANGED <<dev, blockno, valid, refcnt, lu_time, next, prev,
                 bcache_lock, bucket_lock, ticks, a_dev, a_blockno, lru,
                 lru_hash_n, pins, bound, nreads, lu_seen, ticks_seen>>
  /\ BOther

\* acquire(&bucket[b->blockno % NBUCKET].lock) of brelse, bpin and bunpin
\* (bio.c 212, 223, 230)
BufAcquire(p, at, to) ==
  /\ pc[p] = at
  /\ bucket_lock[Hash(blockno[bp[p]])] = 0
  /\ bucket_lock' = [bucket_lock EXCEPT ![Hash(blockno[bp[p]])] = p]
  /\ pc' = [pc EXCEPT ![p] = to]
  /\ UNCHANGED <<dev, blockno, valid, refcnt, lu_time, next, prev, slk,
                 bcache_lock, ticks, a_dev, a_blockno, bp, lru, lru_hash_n,
                 holds, pins, bound, nreads, lu_seen, ticks_seen>>
  /\ BOther

BrelseAcquire(p) == BufAcquire(p, "brelse_acq", "brelse_dec")

\* b->refcnt-- under the bucket lock (bio.c 213)
BrelseDec(p) ==
  /\ pc[p] = "brelse_dec"
  /\ refcnt' = [refcnt EXCEPT ![bp[p]] = @ - 1]
  /\ pc' = [pc EXCEPT ![p] = "brelse_stamp"]
  /\ UNCHANGED <<dev, blockno, valid, lu_time, next, prev, slk, bcache_lock,
                 bucket_lock, ticks, a_dev, a_blockno, bp, lru, lru_hash_n,
                 lu_seen, ticks_seen, holds, pins, bound, nreads>>
  /\ BOther

\* The load of ticks for b->lu_time = ticks (bio.c 215).  tickslock is not
\* taken (bio.c 214, 216 are comments), so the timer interrupt may advance
\* ticks between this load and the store.
BrelseLoadTicks(p) ==
  /\ pc[p] = "brelse_stamp"
  /\ ticks_seen' = [ticks_seen EXCEPT ![p] = ticks]
  /\ pc' = [pc EXCEPT ![p] = "brelse_store"]
  /\ UNCHANGED <<dev, blockno, valid, refcnt, lu_time, next, prev, slk,
                 bcache_lock, bucket_lock, ticks, a_dev, a_blockno, bp, lru,
                 lru_hash_n, lu_seen, holds, pins, bound, nreads>>
  /\ BOther

\* brelse that does not stamp the buffer.
BrelseStampSkipped(p) ==
  /\ pc[p] = "brelse_store"
  /\ bucket_lock' = [bucket_lock EXCEPT ![Hash(blockno[bp[p]])] = 0]
  /\ ticks_seen' = [ticks_seen EXCEPT ![p] = 0]
  /\ Return(p)
  /\ UNCHANGED <<dev, blockno, valid, refcnt, lu_time, next, prev, slk,
                 bcache_lock, ticks, lu_seen, holds, pins, bound, nreads>>
  /\ BOther

\* The store of the loaded value to b->lu_time, and the release
\* (bio.c 215-218)
BrelseStamp(p) ==
  /\ pc[p] = "brelse_store"
  /\ lu_time' = [lu_time EXCEPT ![bp[p]] = ticks_seen[p]]
  /\ bucket_lock' = [bucket_lock EXCEPT ![Hash(blockno[bp[p]])] = 0]
  /\ ticks_seen' = [ticks_seen EXCEPT ![p] = 0]
  /\ Return(p)
  /\ UNCHANGED <<dev, blockno, valid, refcnt, next, prev, slk, bcache_lock,
                 ticks, lu_seen, holds, pins, bound, nreads>>
  /\ BOther

\* bpin(b) by a caller that holds b (bio.c 222-223 entry)
BpinCall(p, b) ==
  /\ pc[p] = "idle"
  /\ b \in HeldBufs(p)
  /\ TotalPins < MaxPin
  /\ bp' = [bp EXCEPT ![p] = b]
  /\ pins' = [pins EXCEPT ![p][b] = @ + 1]
  /\ pc' = [pc EXCEPT ![p] = "bpin_acq"]
  /\ UNCHANGED <<dev, blockno, valid, refcnt, lu_time, next, prev, slk,
                 bcache_lock, bucket_lock, ticks, a_dev, a_blockno, lru,
                 lru_hash_n, holds, bound, nreads, lu_seen, ticks_seen>>
  /\ BOther

BpinAcquire(p) == BufAcquire(p, "bpin_acq", "bpin_inc")

\* b->refcnt++; release (bio.c 224-225)
BpinInc(p) ==
  /\ pc[p] = "bpin_inc"
  /\ refcnt' = [refcnt EXCEPT ![bp[p]] = @ + 1]
  /\ bucket_lock' = [bucket_lock EXCEPT ![Hash(blockno[bp[p]])] = 0]
  /\ Return(p)
  /\ UNCHANGED <<dev, blockno, valid, lu_time, next, prev, slk, bcache_lock,
                 ticks, holds, pins, bound, nreads, lu_seen, ticks_seen>>
  /\ BOther

\* bunpin(b) by a caller that pinned b earlier (bio.c 229-230 entry)
BunpinCall(p, b) ==
  /\ pc[p] = "idle"
  /\ pins[p][b] > 0
  /\ bp' = [bp EXCEPT ![p] = b]
  /\ pins' = [pins EXCEPT ![p][b] = @ - 1]
  /\ pc' = [pc EXCEPT ![p] = "bunpin_acq"]
  /\ UNCHANGED <<dev, blockno, valid, refcnt, lu_time, next, prev, slk,
                 bcache_lock, bucket_lock, ticks, a_dev, a_blockno, lru,
                 lru_hash_n, holds, bound, nreads, lu_seen, ticks_seen>>
  /\ BOther

BunpinAcquire(p) == BufAcquire(p, "bunpin_acq", "bunpin_dec")

\* b->refcnt--; release (bio.c 231-232)
BunpinDec(p) ==
  /\ pc[p] = "bunpin_dec"
  /\ refcnt' = [refcnt EXCEPT ![bp[p]] = @ - 1]
  /\ bucket_lock' = [bucket_lock EXCEPT ![Hash(blockno[bp[p]])] = 0]
  /\ Return(p)
  /\ UNCHANGED <<dev, blockno, valid, lu_time, next, prev, slk, bcache_lock,
                 ticks, holds, pins, bound, nreads, lu_seen, ticks_seen>>
  /\ BOther

\* holdingsleep(&b->lock), as thread p sees it: the sleep-lock is held, and
\* by p.
Holdingsleep(p, b) == slk[b] = p

\* bwrite and brelse without their check of the sleep-lock.
RefusesNever(p, b) == FALSE

\* if(!holdingsleep(&b->lock)) panic("bwrite") (bio.c 197-198)
BwriteRefuses(p, b) == ~Holdingsleep(p, b)

\* if(!holdingsleep(&b->lock)) panic("brelse") (bio.c 207-208)
BrelseRefuses(p, b) == ~Holdingsleep(p, b)

\* bwrite(b) on any buffer of the pool (bio.c 194-200): panic("bwrite") when
\* the caller does not hold b's sleep-lock, else virtio_disk_rw(b, 1) is
\* issued and the thread sleeps until the disk is done.  panic does not
\* return.
BwriteCall(p, b) ==
  /\ pc[p] = "idle"
  /\ IF BwriteRefuses(p, b)
     THEN /\ pc' = [pc EXCEPT ![p] = "panic"]
          /\ UNCHANGED bp
     ELSE /\ pc' = [pc EXCEPT ![p] = "bwrite"]
          /\ bp' = [bp EXCEPT ![p] = b]
  /\ UNCHANGED <<dev, blockno, valid, refcnt, lu_time, next, prev, slk,
                 bcache_lock, bucket_lock, ticks, a_dev, a_blockno, lru,
                 lru_hash_n, holds, pins, bound, nreads, lu_seen,
                 ticks_seen>>
  /\ BOther

\* The disk write is done: bwrite returns (bio.c 199-200)
BwriteDone(p) ==
  /\ pc[p] = "bwrite"
  /\ Return(p)
  /\ UNCHANGED <<dev, blockno, valid, refcnt, lu_time, next, prev, slk,
                 bcache_lock, bucket_lock, ticks, holds, pins, bound, nreads,
                 lu_seen, ticks_seen>>
  /\ BOther

\* brelse(b) by a caller that did not get b from bread, or has released it
\* already (bio.c 207-210): panic("brelse") when the caller does not hold
\* b's sleep-lock, else releasesleep and on to the bucket lock.
BrelseStray(p, b) ==
  /\ pc[p] = "idle"
  /\ b \notin HeldBufs(p)
  /\ IF BrelseRefuses(p, b)
     THEN /\ pc' = [pc EXCEPT ![p] = "panic"]
          /\ UNCHANGED <<slk, bp>>
     ELSE /\ slk' = [slk EXCEPT ![b] = 0]
          /\ bp' = [bp EXCEPT ![p] = b]
          /\ pc' = [pc EXCEPT ![p] = "brelse_acq"]
  /\ UNCHANGED <<dev, blockno, valid, refcnt, lu_time, next, prev,
                 bcache_lock, bucket_lock, ticks, a_dev, a_blockno, lru,
                 lru_hash_n, holds, pins, bound, nreads, lu_seen,
                 ticks_seen>>
  /\ BOther

\* The timer interrupt advances ticks.
Tick ==
  /\ ticks < MaxTicks
  /\ ticks' = ticks + 1
  /\ UNCHANGED <<dev, blockno, valid, refcnt, lu_time, next, prev, slk,
                 bcache_lock, bucket_lock, pc, a_dev, a_blockno, bp, lru,
                 lru_hash_n, holds, pins, bound, nreads, lu_seen,
                 ticks_seen>>
  /\ BOther

\* kinit (kalloc.c 32-43), run once on CPU 0: freerange calls kfree on each
\* frame in ascending order and kfree pushes it on the head of CPU 0's list.
RECURSIVE Freerange(_, _)
Freerange(p, st) ==
  IF p + PGSIZE <= PHYSTOP
  THEN Freerange(p + PGSIZE,
                 [fl |-> [st.fl EXCEPT ![0] = p],
                  nx |-> [st.nx EXCEPT ![p] = st.fl[0]]])
  ELSE st

Kinit ==
  Freerange(PGROUNDUP(KernelEnd),
            [fl |-> [c \in CPUs |-> NULL], nx |-> [f \in Frames |-> Junk1]])

KInit ==
  /\ kfreelist = Kinit.fl
  /\ knext = Kinit.nx
  /\ klock = [c \in CPUs |-> NoCpu]
  /\ kpc = [c \in CPUs |-> "idle"]
  /\ kr = [c \in CPUs |-> NULL]
  /\ ki = [c \in CPUs |-> 0]
  /\ kpa = [c \in CPUs |-> NULL]
  /\ kallocd = {}
  /\ kseen = [c \in CPUs |-> FALSE]
  /\ ksnap = [c \in CPUs |-> <<>>]

\* The allocator does not touch the buffer cache.
KOther == UNCHANGED bvars

KallocPcs == {"k_read", "k_pop", "k_probe", "k_sread", "k_steal", "k_ret"}
Quiet(c) == \A d \in CPUs \ {c} : kpc[d] \in {"idle", "panic"}
AllEmpty(fl) == \A d \in CPUs : fl[d] = NULL

\* History of a step of CPU c: the snapshot of any other CPU's call is
\* dropped, and every call in progress records whether all lists are empty.
KHist(c) ==
  /\ ksnap' = [d \in CPUs |->
                 IF d # c \/ kpc'[d] = "idle" THEN <<>>
                 ELSE IF kpc[c] = "idle" /\ kpc'[c] = "k_read" /\ Quiet(c)
                      THEN <<[fl |-> kfreelist, nx |-> knext]>>
                      ELSE ksnap[c]]
  /\ kseen' = [d \in CPUs |->
                 /\ kpc'[d] \in KallocPcs
                 /\ \/ kseen[d]
                    \/ AllEmpty(kfreelist')
                    \/ kpc[d] \notin KallocPcs /\ AllEmpty(kfreelist)]

\* kalloc entry (kalloc.c 90-92): push_off, id = cpuid(),
\* acquire(&kmem[id].lock)
KallocAcquire(c) ==
  /\ kpc[c] = "idle"
  /\ klock[c] = NoCpu
  /\ klock' = [klock EXCEPT ![c] = c]
  /\ kpc' = [kpc EXCEPT ![c] = "k_read"]
  /\ UNCHANGED <<kfreelist, knext, kr, ki, kpa, kallocd>>
  /\ KHist(c)
  /\ KOther

\* r = kmem[id].freelist (kalloc.c 93)
KallocRead(c) ==
  /\ kpc[c] = "k_read"
  /\ kr' = [kr EXCEPT ![c] = kfreelist[c]]
  /\ kpc' = [kpc EXCEPT ![c] = "k_pop"]
  /\ UNCHANGED <<kfreelist, knext, klock, ki, kpa, kallocd>>
  /\ KHist(c)
  /\ KOther

\* if(r) kmem[id].freelist = r->next; release (kalloc.c 94-99).  With
\* r == 0 the probing loop starts at i = 1.
KallocPop(c) ==
  /\ kpc[c] = "k_pop"
  /\ LET r == kr[c]
     IN /\ kfreelist' = IF r # NULL THEN [kfreelist EXCEPT ![c] = knext[r]]
                        ELSE kfreelist
        /\ IF r # NULL \/ 1 >= NCPU
           THEN /\ kpc' = [kpc EXCEPT ![c] = "k_ret"]
                /\ UNCHANGED ki
           ELSE /\ kpc' = [kpc EXCEPT ![c] = "k_probe"]
                /\ ki' = [ki EXCEPT ![c] = 1]
  /\ klock' = [klock EXCEPT ![c] = NoCpu]
  /\ UNCHANGED <<knext, kr, kpa, kallocd>>
  /\ KHist(c)
  /\ KOther

\* Probing downwards: id-1, id-2, ...
ProbeIdDown(c, i) == (c + NCPU - i) % NCPU

\* id_n = (id + i) % NCPU
ProbeId(c, i) == (c + i) % NCPU

\* Probing a shard without waiting for its lock.
KallocProbeNoLock(c) ==
  /\ kpc[c] = "k_probe"
  /\ klock' = [klock EXCEPT ![ProbeId(c, ki[c])] = c]
  /\ kpc' = [kpc EXCEPT ![c] = "k_sread"]
  /\ UNCHANGED <<kfreelist, knext, kr, ki, kpa, kallocd>>
  /\ KHist(c)
  /\ KOther

\* acquire(&kmem[id_n].lock) (kalloc.c 106-107)
KallocProbeAcquire(c) ==
  /\ kpc[c] = "k_probe"
  /\ klock[ProbeId(c, ki[c])] = NoCpu
  /\ klock' = [klock EXCEPT ![ProbeId(c, ki[c])] = c]
  /\ kpc' = [kpc EXCEPT ![c] = "k_sread"]
  /\ UNCHANGED <<kfreelist, knext, kr, ki, kpa, kallocd>>
  /\ KHist(c)
  /\ KOther

\* r = kmem[id_n].freelist (kalloc.c 108)
KallocStealRead(c) ==
  /\ kpc[c] = "k_sread"
  /\ kr' = [kr EXCEPT ![c] = kfreelist[ProbeId(c, ki[c])]]
  /\ kpc' = [kpc EXCEPT ![c] = "k_steal"]
  /\ UNCHANGED <<kfreelist, knext, klock, ki, kpa, kallocd>>
  /\ KHist(c)
  /\ KOther

\* for (i = 1; i < NCPU; i++): whether the loop goes on after iteration i
ProbeMore(i) == i + 1 < NCPU

\* if(r): pop it, release and break; else release and go on with the next
\* shard (kalloc.c 105, 109-115)
KallocSteal(c) ==
  /\ kpc[c] = "k_steal"
  /\ LET n == ProbeId(c, ki[c])
         r == kr[c]
     IN /\ klock' = [klock EXCEPT ![n] = NoCpu]
        /\ IF r # NULL
           THEN /\ kfreelist' = [kfreelist EXCEPT ![n] = knext[r]]
                /\ kpc' = [kpc EXCEPT ![c] = "k_ret"]
                /\ UNCHANGED ki
           ELSE /\ UNCHANGED kfreelist
                /\ ki' = [ki EXCEPT ![c] = @ + 1]
                /\ kpc' = [kpc EXCEPT ![c] =
                             IF ProbeMore(ki[c]) THEN "k_probe" ELSE "k_ret"]
  /\ UNCHANGED <<knext, kr, kpa, kallocd>>
  /\ KHist(c)
  /\ KOther

\* if(r) memset(r, 5, PGSIZE); pop_off; return r (kalloc.c 118-123)
KallocReturn(c) ==
  /\ kpc[c] = "k_ret"
  /\ IF kr[c] # NULL
     THEN /\ knext' = [knext EXCEPT ![kr[c]] = Junk5]
          /\ kallocd' = kallocd \cup {kr[c]}
     ELSE UNCHANGED <<knext, kallocd>>
  /\ kpc' = [kpc EXCEPT ![c] = "idle"]
  /\ kr' = [kr EXCEPT ![c] = NULL]
  /\ ki' = [ki EXCEPT ![c] = 0]
  /\ UNCHANGED <<kfreelist, klock, kpa>>
  /\ KHist(c)
  /\ KOther

\* The range check with > PHYSTOP for >= PHYSTOP.
KfreeBadOffByOne(pa) == pa % PGSIZE # 0 \/ pa < KernelEnd \/ pa > PHYSTOP

\* if(((uint64)pa % PGSIZE) != 0 || (char*)pa < end || (uint64)pa >= PHYSTOP)
KfreeBad(pa) == pa % PGSIZE # 0 \/ pa < KernelEnd \/ pa >= PHYSTOP

\* What callers pass to kfree: a frame they got from kalloc, or an address
\* that is no frame of the heap.
KfreeArg(pa) == pa \in kallocd \/ pa \notin Frames

\* kfree(pa) with an address the check rejects: panic("kfree")
\* (kalloc.c 63-64); panic does not return.
KfreePanic(c, pa) ==
  /\ kpc[c] = "idle"
  /\ KfreeArg(pa)
  /\ KfreeBad(pa)
  /\ kpc' = [kpc EXCEPT ![c] = "panic"]
  /\ UNCHANGED <<kfreelist, knext, klock, kr, ki, kpa, kallocd>>
  /\ KHist(c)
  /\ KOther

\* kfree(pa) with an address the check accepts (kalloc.c 63-74):
\* memset(pa, 1, PGSIZE), r = pa, push_off, id = cpuid()
KfreeCall(c, pa) ==
  /\ kpc[c] = "idle"
  /\ KfreeArg(pa)
  /\ ~KfreeBad(pa)
  /\ knext' = [knext EXCEPT ![pa] = Junk1]
  /\ kallocd' = kallocd \ {pa}
  /\ kpa' = [kpa EXCEPT ![c] = pa]
  /\ kpc' = [kpc EXCEPT ![c] = "f_acq"]
  /\ UNCHANGED <<kfreelist, klock, kr, ki>>
  /\ KHist(c)
  /\ KOther

\* acquire(&kmem[id].lock) (kalloc.c 75)
KfreeAcquire(c) ==
  /\ kpc[c] = "f_acq"
  /\ klock[c] = NoCpu
  /\ klock' = [klock EXCEPT ![c] = c]
  /\ kpc' = [kpc EXCEPT ![c] = "f_link"]
  /\ UNCHANGED <<kfreelist, knext, kr, ki, kpa, kallocd>>
  /\ KHist(c)
  /\ KOther

\* r->next = kmem[id].freelist (kalloc.c 76)
KfreeLink(c) ==
  /\ kpc[c] = "f_link"
  /\ knext' = [knext EXCEPT ![kpa[c]] = kfreelist[c]]
  /\ kpc' = [kpc EXCEPT ![c] = "f_push"]
  /\ UNCHANGED <<kfreelist, klock, kr, ki, kpa, kallocd>>
  /\ KHist(c)
  /\ KOther

\* kfree that gives every frame back to the boot CPU's shard.
KfreePushToZero(c) ==
  /\ kpc[c] = "f_push"
  /\ UNCHANGED knext
  /\ kfreelist' = [kfreelist EXCEPT ![0] = kpa[c]]
  /\ klock' = [klock EXCEPT ![c] = NoCpu]
  /\ kpc' = [kpc EXCEPT ![c] = "idle"]
  /\ kpa' = [kpa EXCEPT ![c] = NULL]
  /\ UNCHANGED <<kr, ki, kallocd>>
  /\ KHist(c)
  /\ KOther

\* kmem[id].freelist = r; release; pop_off (kalloc.c 77-79)
KfreePush(c) ==
  /\ kpc[c] = "f_push"
  /\ UNCHANGED knext
  /\ kfreelist' = [kfreelist EXCEPT ![c] = kpa[c]]
  /\ klock' = [klock EXCEPT ![c] = NoCpu]
  /\ kpc' = [kpc EXCEPT ![c] = "idle"]
  /\ kpa' = [kpa EXCEPT ![c] = NULL]
  /\ UNCHANGED <<kr, ki, kallocd>>
  /\ KHist(c)
  /\ KOther

KNext ==
  \/ \E c \in CPUs : KallocAcquire(c)
  \/ \E c \in CPUs : KallocRead(c)
  \/ \E c \in CPUs : KallocPop(c)
  \/ \E c \in CPUs : KallocProbeAcquire(c)
  \/ \E c \in CPUs : KallocStealRead(c)
  \/ \E c \in CPUs : KallocSteal(c)
  \/ \E c \in CPUs : KallocReturn(c)
  \/ \E c \in CPUs, pa \in Addrs : KfreePanic(c, pa)
  \/ \E c \in CPUs, pa \in Addrs : KfreeCall(c, pa)
  \/ \E c \in CPUs : KfreeAcquire(c)
  \/ \E c \in CPUs : KfreeLink(c)
  \/ \E c \in CPUs : KfreePush(c)

Init == BInit /\ KInit


Next ==
  \/ \E p \in Procs, k \in Keys : BgetAcquire(p, k[1], k[2])
  \/ \E p \in Procs : BgetScan1(p)
  \/ \E p \in Procs : BgetAcquireGlobal(p)
  \/ \E p \in Procs : BgetAcquireBucket(p)
  \/ \E p \in Procs : BgetScan2(p)
  \/ \E p \in Procs : BgetReleaseGlobal(p)
  \/ \E p \in Procs : BgetLruScan(p)
  \/ \E p \in Procs, w \in {"b", "l"} : BgetLruLoad(p, w)
  \/ \E p \in Procs : BgetLruCompare(p)
  \/ \E p \in Procs : BgetLruNone(p)
  \/ \E p \in Procs : BgetLruFound(p)
  \/ \E p \in Procs : BgetRecheckRetry(p)
  \/ \E p \in Procs : BgetUnlink(p)
  \/ \E p \in Procs : BgetRebind(p)
  \/ \E p \in Procs : BgetSleep(p)
  \/ \E p \in Procs : BreadDisk(p)
  \/ \E p \in Procs : BreadDiskDone(p)
  \/ \E p \in Procs : BreadReturn(p)
  \/ \E p \in Procs, b \in Bufs : BrelseUnlock(p, b)
  \/ \E p \in Procs : BrelseAcquire(p)
  \/ \E p \in Procs : BrelseDec(p)
  \/ \E p \in Procs : BrelseLoadTicks(p)
  \/ \E p \in Procs : BrelseStamp(p)
  \/ \E p \in Procs, b \in Bufs : BpinCall(p, b)
  \/ \E p \in Procs : BpinAcquire(p)
  \/ \E p \in Procs : BpinInc(p)
  \/ \E p \in Procs, b \in Bufs : BunpinCall(p, b)
  \/ \E p \in Procs : BunpinAcquire(p)
  \/ \E p \in Procs : BunpinDec(p)
  \/ Tick

Spec == Init /\ [][Next]_vars

\* The steps thread p takes inside a call it has made.
Step(p) ==
  \/ BgetScan1(p) \/ BgetAcquireGlobal(p) \/ BgetAcquireBucket(p)
  \/ BgetScan2(p) \/ BgetReleaseGlobal(p) \/ BgetLruScan(p)
  \/ BgetLruLoad(p, "b") \/ BgetLruLoad(p, "l") \/ BgetLruCompare(p)
  \/ BgetLruNone(p) \/ BgetLruFound(p)
  \/ BgetRecheckRetry(p) \/ BgetUnlink(p) \/ BgetRebind(p) \/ BgetSleep(p)
  \/ BreadDisk(p) \/ BreadDiskDone(p) \/ BreadReturn(p)
  \/ BrelseAcquire(p) \/ BrelseDec(p) \/ BrelseLoadTicks(p)
  \/ BrelseStamp(p)
  \/ BpinAcquire(p) \/ BpinInc(p)
  \/ BunpinAcquire(p) \/ BunpinDec(p)

\* Every CPU keeps running: a thread inside a call whose next step is
\* possible again and again takes it.  (A spinning acquire keeps trying, a
\* sleeper is woken by releasesleep, the disk answers.)
Fairness == \A p \in Procs : SF_vars(Step(p))

SpecFair == Init /\ [][Next]_vars /\ Fairness

SpecKalloc == Init /\ [][KNext]_vars

\* The buffer cache with callers that also write buffers back and that pass
\* to bwrite and brelse buffers they do not hold.
NextMisuse ==
  \/ Next
  \/ \E p \in Procs, b \in Bufs : BwriteCall(p, b)
  \/ \E p \in Procs : BwriteDone(p)
  \/ \E p \in Procs, b \in Bufs : BrelseStray(p, b)

SpecMisuse == Init /\ [][NextMisuse]_vars

\* ------------------------------------------------------------------------
\* Properties of the buffer cache
\* ------------------------------------------------------------------------
KeyOf(b) == <<dev[b], blockno[b]>>

\* Thread p has got buffer b from bget for block k: bread returned it and
\* it is not released yet, or bget has chosen it and p is on its way out of
\* bread.
Has(p, k, b) ==
  \/ <<b, k[1], k[2]>> \in holds[p]
  \/ /\ pc[p] \in {"rel_global", "sleep", "bread", "disk"}
     /\ bp[p] = b
     /\ <<a_dev[p], a_blockno[p]>> = k

Linked(b) == next[prev[b]] = b /\ prev[next[b]] = b

\* C1: a (dev, blockno) that some buffer was bound to by bget is carried by
\* that buffer only: no other buffer of the pool has the same dev and
\* blockno.
C1_OneBufferPerBlock ==
  \A b1 \in Bufs : \A b2 \in Bufs \ {b1} :
    bound[b1] => KeyOf(b1) # KeyOf(b2)

\* Every buffer has been bound, two of them to blocks of the same bucket,
\* while one thread holds a block and the other has just found it too.
C1_Witness ==
  /\ \A b \in Bufs : bound[b]
  /\ \E b1 \in Bufs : \E b2 \in Bufs \ {b1} :
       Hash(blockno[b1]) = Hash(blockno[b2])
  /\ \E p \in Procs : \E q \in Procs \ {p} : \E b \in Bufs :
       /\ b \in HeldBufs(p)
       /\ pc[q] = "sleep" /\ bp[q] = b

\* C2: two threads that are in or back from bread of the same block have
\* the same buffer, and the disk was read at most once for it, exactly once
\* as soon as one of the two calls has returned.
C2_SameSlotOneRead ==
  \A p \in Procs : \A q \in Procs \ {p} : \A k \in Keys :
    \A b1 \in Bufs : \A b2 \in Bufs :
      (Has(p, k, b1) /\ Has(q, k, b2)) =>
        /\ b1 = b2
        /\ nreads[b1] <= 1
        /\ (b1 \in HeldBufs(p) => nreads[b1] = 1)

\* One thread bound the block by eviction and is back from bread with it,
\* the other found the same buffer and waits for its sleep-lock.
C2_Witness ==
  \E p \in Procs : \E q \in Procs \ {p} : \E b \in Bufs :
    /\ bound[b]
    /\ <<b, dev[b], blockno[b]>> \in holds[p]
    /\ pc[q] = "sleep" /\ bp[q] = b
    /\ <<a_dev[q], a_blockno[q]>> = KeyOf(b)
    /\ nreads[b] = 1

\* C3: a buffer returned by bread and not yet released is sleep-locked by
\* its caller alone, has refcnt >= 1 and valid = 1, and carries the dev and
\* blockno that were asked for.
C3_HeldBuffer ==
  \A p \in Procs : \A r \in holds[p] :
    /\ slk[r[1]] = p
    /\ refcnt[r[1]] >= 1
    /\ valid[r[1]] = 1
    /\ dev[r[1]] = r[2]
    /\ blockno[r[1]] = r[3]
    /\ \A q \in Procs \ {p} : r[1] \notin HeldBufs(q)

\* A thread holds a buffer got for device 1 while the other thread waits
\* for the same buffer.
C3_Witness ==
  \E p \in Procs : \E q \in Procs \ {p} : \E r \in holds[p] :
    /\ r[2] = 1
    /\ pc[q] = "sleep" /\ bp[q] = r[1]
    /\ refcnt[r[1]] = 2

\* C4: no step rewrites the dev or blockno of a buffer whose refcnt is
\* greater than 0, or takes it out of its bucket's list.
C4_InUseNotEvicted ==
  [][\A b \in Bufs :
       refcnt[b] > 0 =>
         /\ dev'[b] = dev[b]
         /\ blockno'[b] = blockno[b]
         /\ (Linked(b) => Linked(b)')]_vars

\* A buffer that is pinned, held by nobody, and older than the victim, at
\* the moment bget has unlinked the victim.
C4_Witness ==
  \E p \in Procs : \E b \in Bufs \ {lru[p]} :
    /\ pc[p] = "rebind"
    /\ refcnt[b] > 0
    /\ slk[b] = 0
    /\ \E q \in Procs : pins[q][b] > 0
    /\ lu_time[b] < lu_time[lru[p]]

\* C5: a full scan of the pool that found no buffer with refcnt == 0 is
\* followed by the panic "bget: no buffers".
C5_PanicWhenNoBuffers ==
  [][\A p \in Procs :
       (BgetLruNone(p) /\ \A b \in Bufs : refcnt[b] > 0) =>
         pc'[p] = "panic"]_vars

\* C6: the disk is read at most once per binding of a buffer, a buffer is
\* valid exactly when it was read, and a buffer that bread returned has
\* been read.
C6_ReadIffInvalid ==
  \A b \in Bufs :
    /\ nreads[b] \in {0, 1}
    /\ (valid[b] = 1 <=> (nreads[b] = 1 /\ \A p \in Procs :
                            ~(pc[p] = "disk" /\ bp[p] = b)))
    /\ ((\E p \in Procs : b \in HeldBufs(p)) => nreads[b] = 1)

\* A second bread of a block that was read, released and not evicted: the
\* caller is in bread with a valid buffer that nobody else refers to.
C6_Witness ==
  \E p \in Procs : \E b \in Bufs :
    /\ pc[p] = "bread" /\ bp[p] = b
    /\ bound[b] /\ valid[b] = 1 /\ nreads[b] = 1
    /\ refcnt[b] = 1
    /\ lu_time[b] >= 0

\* ------------------------------------------------------------------------
\* Properties of the allocator
\* ------------------------------------------------------------------------
\* The frames reached from head n through the next pointers nx.
RECURSIVE Walk(_, _, _)
Walk(n, nx, fuel) ==
  IF n \notin Frames \/ fuel = 0 THEN <<>>
  ELSE <<n>> \o Walk(nx[n], nx, fuel - 1)

FreeSeq(c) == Walk(kfreelist[c], knext, NFRAMES + 1)

\* Number of places of all free lists at which frame f stands.
Occurrences(f) ==
  Cardinality({x \in CPUs \X (1..(NFRAMES + 1)) :
                 x[2] <= Len(FreeSeq(x[1])) /\ FreeSeq(x[1])[x[2]] = f})

KfreePcs == {"f_acq", "f_link", "f_push"}

\* Number of owners of frame f outside the free lists: the callers that
\* got it from kalloc, a kalloc that has popped it and is about to return
\* it, a kfree that was passed it and has not pushed it yet.
Holders(f) ==
  (IF f \in kallocd THEN 1 ELSE 0)
  + Cardinality({c \in CPUs : kpc[c] = "k_ret" /\ kr[c] = f})
  + Cardinality({c \in CPUs : kpc[c] \in KfreePcs /\ kpa[c] = f})

\* C7: every frame is either allocated to exactly one owner or stands
\* exactly once in exactly one free list.
C7_FrameOwnedOnce ==
  \A f \in Frames : Occurrences(f) + Holders(f) = 1

\* A CPU has popped a frame from its own shard while another CPU has
\* stolen a frame from that same shard; both are about to return.
C7_Witness ==
  \E c \in CPUs : \E d \in CPUs \ {c} :
    /\ kpc[c] = "k_ret" /\ kr[c] # NULL /\ ki[c] = 0
    /\ kpc[d] = "k_ret" /\ kr[d] # NULL /\ ki[d] > 0
    /\ (d + ki[d]) % NCPU = c

\* C8: a kalloc that is about to return 0 has seen, at some instant of the
\* call, the free lists of all shards empty at once.
C8_NullOnlyIfExhausted ==
  \A c \in CPUs : (kpc[c] = "k_ret" /\ kr[c] = NULL) => kseen[c]

\* unaligned, below the heap start, or at or above PHYSTOP
C9_Malformed(pa) == pa % PGSIZE # 0 \/ pa < KernelEnd \/ pa >= PHYSTOP

\* C9: kfree panics only on a malformed address and then leaves every free
\* list as it is; a kfree that goes on has a well-formed address.
C9_KfreePanicIffMalformed ==
  /\ [][\A c \in CPUs : \A pa \in Addrs :
          KfreePanic(c, pa) =>
            (C9_Malformed(pa) /\ UNCHANGED <<kfreelist, knext, kallocd>>)]_vars
  /\ [](\A c \in CPUs : kpc[c] \in KfreePcs => ~C9_Malformed(kpa[c]))

\* One CPU has panicked in kfree while another CPU's kfree is under way.
C9_Witness ==
  \E c \in CPUs : \E d \in CPUs \ {c} :
    kpc[c] = "panic" /\ kpc[d] = "f_link"

\* The first shard after c, in the order c+1, c+2, ... mod NCPU, whose list
\* in fl is not empty.
C10_FirstNonEmpty(c, fl) ==
  (c + CHOOSE i \in 1..(NCPU - 1) :
         /\ fl[(c + i) % NCPU] # NULL
         /\ \A j \in 1..(i - 1) : fl[(c + j) % NCPU] = NULL) % NCPU

C10_Case(c) ==
  /\ kpc[c] = "k_ret"
  /\ ksnap[c] # <<>>
  /\ ksnap[c][1].fl[c] = NULL
  /\ \E d \in CPUs \ {c} : ksnap[c][1].fl[d] # NULL

\* C10: a kalloc that ran alone, started with its own list empty and some
\* other list not, returns the head of the first non-empty shard in probe
\* order; that list has lost its head and nothing else has changed.
C10_StealsFromFirstNonEmpty ==
  \A c \in CPUs :
    C10_Case(c) =>
      LET s == ksnap[c][1]
          n == C10_FirstNonEmpty(c, s.fl)
      IN /\ kr[c] # NULL
         /\ kr[c] = s.fl[n]
         /\ kfreelist = [s.fl EXCEPT ![n] = s.nx[s.fl[n]]]
         /\ knext = s.nx

\* Such a kalloc whose first probe found an empty shard and whose second
\* probe stole, with both other shards holding frames or not.
C10_Witness ==
  \E c \in CPUs :
    /\ C10_Case(c)
    /\ ksnap[c][1].fl[(c + 1) % NCPU] = NULL
    /\ ki[c] = 2
    /\ kr[c] # NULL

\* Number of frames on the free lists with heads fl and next pointers nx.
RECURSIVE FreeCount(_, _, _)
FreeCount(S, fl, nx) ==
  IF S = {} THEN 0
  ELSE LET c == CHOOSE d \in S : TRUE
       IN Len(Walk(fl[c], nx, NFRAMES + 1)) + FreeCount(S \ {c}, fl, nx)

\* The step in which a kalloc takes a frame off a list, and the step in
\* which a kfree puts its frame on a list.
KallocTakes(c) ==
  kpc[c] \in {"k_pop", "k_steal"} /\ kpc'[c] = "k_ret" /\ kr[c] # NULL
KfreeGives(c) == kpc[c] = "f_push" /\ kpc'[c] = "idle"

\* C11: the number of free frames over all shards goes down by one when a
\* kalloc takes a frame, up by one when a kfree gives its frame back, and is
\* changed by no other step, so kalloc followed by kfree leaves it as it
\* was; kfree puts the frame on the head of the list of the CPU that runs
\* it and leaves the list of every other shard as it is.
C11_KfreeOnOwnShard ==
  [][/\ FreeCount(CPUs, kfreelist', knext')
          = FreeCount(CPUs, kfreelist, knext)
            + (IF \E c \in CPUs : KfreeGives(c) THEN 1 ELSE 0)
            - (IF \E c \in CPUs : KallocTakes(c) THEN 1 ELSE 0)
     /\ \A c \in CPUs :
          KfreeGives(c) =>
            /\ Walk(kfreelist'[c], knext', NFRAMES + 1)
                 = <<kpa[c]>> \o FreeSeq(c)
            /\ \A d \in CPUs \ {c} :
                 Walk(kfreelist'[d], knext', NFRAMES + 1) = FreeSeq(d)]_vars

\* All frames started on CPU 0's shard: two of them now stand on the list
\* of another CPU, which freed them, and that CPU's shard is at rest.
C11_Witness ==
  \E c \in CPUs \ {0} :
    /\ Len(FreeSeq(c)) = 2
    /\ kpc[c] = "idle"
    /\ kfreelist[0] # NULL

\* ------------------------------------------------------------------------
\* Properties of the buffer cache, continued
\* ------------------------------------------------------------------------
\* C12: bwrite(b) and brelse(b) by a thread that does not hold b's
\* sleep-lock panic and change nothing: no thread starts a disk write, and
\* the fields, the sleep-lock and the list pointers of every buffer stay as
\* they are.
C12_StrayCallPanics ==
  [][\A p \in Procs : \A b \in Bufs :
       ((BwriteCall(p, b) \/ BrelseStray(p, b)) /\ slk[b] # p) =>
         /\ pc'[p] = "panic"
         /\ \A q \in Procs : pc'[q] = "bwrite" => pc[q] = "bwrite"
         /\ UNCHANGED <<dev, blockno, valid, refcnt, lu_time, slk, next,
                        prev>>]_vars

\* A thread has panicked on a buffer while the other thread, which holds
\* the sleep-lock of a buffer, is writing it to the disk.
C12_Witness ==
  \E p \in Procs : \E q \in Procs \ {p} :
    /\ pc[p] = "panic"
    /\ pc[q] = "bwrite"
    /\ slk[bp[q]] = q
    /\ refcnt[bp[q]] >= 1

\* The buffers met from node n on along the next pointers, up to the head
\* of bucket i.
RECURSIVE ListFrom(_, _, _)
ListFrom(n, i, fuel) ==
  IF n = BucketHead(i) \/ n \notin Bufs \/ fuel = 0 THEN <<>>
  ELSE <<n>> \o ListFrom(next[n], i, fuel - 1)

BucketSeq(i) == ListFrom(next[BucketHead(i)], i, NBUF + 1)

\* From node n on the next pointers lead through buffers back to the head
\* of bucket i, and prev is the inverse of next on the way.
RECURSIVE ClosedFrom(_, _, _)
ClosedFrom(n, i, fuel) ==
  IF n = BucketHead(i) THEN TRUE
  ELSE IF n \notin Bufs \/ fuel = 0 THEN FALSE
  ELSE prev[next[n]] = n /\ ClosedFrom(next[n], i, fuel - 1)

RingOk(i) ==
  /\ prev[next[BucketHead(i)]] = BucketHead(i)
  /\ ClosedFrom(next[BucketHead(i)], i, NBUF)

\* Number of places of all bucket lists at which buffer b stands.
Places(b) ==
  LET s == [i \in Buckets |-> BucketSeq(i)]
  IN Cardinality({x \in UNION {{<<i, k>> : k \in 1..Len(s[i])} :
                                 i \in Buckets} : s[x[1]][x[2]] = b})

\* bget has unlinked b and not yet linked it again.
Detached(b) == \E p \in Procs : pc[p] = "rebind" /\ lru[p] = b

\* C13: every bucket list is a ring through its head with prev the inverse
\* of next; every buffer stands exactly once in exactly one list, except
\* the victim that a bget has unlinked and not yet linked again, which
\* stands in none while that bget holds bcache.lock and the lock of the
\* bucket it is going to.
C13_OneListEach ==
  /\ \A i \in Buckets : RingOk(i)
  /\ \A b \in Bufs : Places(b) = IF Detached(b) THEN 0 ELSE 1
  /\ \A p \in Procs :
       pc[p] = "rebind" =>
         /\ bcache_lock = p
         /\ bucket_lock[Hash(a_blockno[p])] = p

\* A victim taken out of another bucket than the one it is going to, while
\* the other thread holds the buffer that stays behind in that bucket.
C13_Witness ==
  \E p \in Procs : \E q \in Procs \ {p} : \E b \in Bufs \ {lru[p]} :
    /\ pc[p] = "rebind"
    /\ lru_hash_n[p] # Hash(a_blockno[p])
    /\ b \in HeldBufs(q)
    /\ Hash(blockno[b]) = lru_hash_n[p]

\* Buffer b stands in the list of bucket i.
InBucket(b, i) == \E k \in 1..Len(BucketSeq(i)) : BucketSeq(i)[k] = b

\* The thread that takes the step holds the lock of bucket i.
StepperHolds(i) == \E p \in Procs : pc'[p] # pc[p] /\ bucket_lock[i] = p

\* C14: every buffer of the list of bucket i has a blockno with
\* blockno % NBUCKET = i; the bucket lock that brelse, bpin, bunpin and the
\* re-check of the victim hold, computed from b->blockno, is the lock of
\* the bucket whose list the buffer stands in; and a step that writes the
\* refcnt or a list pointer of a buffer, or a pointer of a bucket head, is
\* taken by a thread that holds the lock of that buffer's bucket.
C14_InOwnBucket ==
  /\ [](\A i \in Buckets : \A k \in 1..Len(BucketSeq(i)) :
          Hash(blockno[BucketSeq(i)[k]]) = i)
  /\ [](\A p \in Procs :
          /\ pc[p] \in {"brelse_dec", "brelse_stamp", "brelse_store",
                         "bpin_inc", "bunpin_dec"} =>
               /\ bucket_lock[Hash(blockno[bp[p]])] = p
               /\ InBucket(bp[p], Hash(blockno[bp[p]]))
          /\ pc[p] = "recheck" =>
               /\ lru_hash_n[p] = Hash(blockno[lru[p]])
               /\ bucket_lock[lru_hash_n[p]] = p
               /\ InBucket(lru[p], lru_hash_n[p]))
  /\ [][/\ \A b \in Bufs :
             (refcnt'[b] # refcnt[b] \/ next'[b] # next[b]
                \/ prev'[b] # prev[b]) => StepperHolds(Hash(blockno'[b]))
        /\ \A i \in Buckets :
             (next'[BucketHead(i)] # next[BucketHead(i)]
                \/ prev'[BucketHead(i)] # prev[BucketHead(i)])
               => StepperHolds(i)]_vars

\* bget holds the lock of the victim's bucket, another bucket than the one
\* asked for, for the re-check, while a brelse of a buffer of the victim's
\* bucket waits for that lock.
C14_Witness ==
  \E p \in Procs : \E q \in Procs \ {p} :
    /\ pc[p] = "recheck"
    /\ lru_hash_n[p] # Hash(a_blockno[p])
    /\ pc[q] = "brelse_acq"
    /\ Hash(blockno[bp[q]]) = lru_hash_n[p]

\* Buffer l is first in the order of eviction among the free buffers: its
\* refcnt is 0 and no buffer with refcnt 0 has a smaller lu_time, or the
\* same lu_time and a lower place in bcache.buf.
LeastRecentlyReleased(l) ==
  /\ refcnt[l] = 0
  /\ \A b \in Bufs :
       refcnt[b] = 0 =>
         \/ lu_time[l] < lu_time[b]
         \/ lu_time[l] = lu_time[b] /\ l <= b

\* C15: in the step in which bget unlinks its victim, the victim is the
\* free buffer that was released least recently.
C15_VictimIsLeastRecent ==
  [][\A p \in Procs :
       (pc[p] = "recheck" /\ pc'[p] = "rebind") =>
         LeastRecentlyReleased(lru[p])]_vars

\* Thread p holds a spin-lock.
HoldsSpin(p) == bcache_lock = p \/ \E i \in Buckets : bucket_lock[i] = p

\* C16: a thread that waits for a buffer's sleep-lock in bget, or holds it
\* on its way out of bread, holds no spin-lock; a thread in brelse that
\* waits for or holds the bucket lock has released the buffer's sleep-lock.
C16_NoSpinLockAcrossSleep ==
  \A p \in Procs :
    /\ pc[p] \in {"sleep", "bread", "disk"} => ~HoldsSpin(p)
    /\ pc[p] \in {"brelse_acq", "brelse_dec", "brelse_stamp",
                   "brelse_store"} => slk[bp[p]] # p

\* A thread waits in bget for a sleep-lock that the other thread holds,
\* while that thread is in brelse of another buffer under its bucket lock.
C16_Witness ==
  \E p \in Procs : \E q \in Procs \ {p} :
    /\ pc[p] = "sleep"
    /\ slk[bp[p]] = q
    /\ pc[q] = "brelse_dec"
    /\ bp[q] # bp[p]

\* Names of the spin-locks: bucket[i].lock is i, bcache.lock is GLock.
GLock == NBUCKET
NoLock == NBUCKET + 1

Holder(l) == IF l = GLock THEN bcache_lock ELSE bucket_lock[l]

\* The spin-lock that thread p is at the acquire of, NoLock when it is at
\* none (bio.c 103, 104, 139-141, 212, 223, 230).
Wants(p) ==
  IF pc[p] = "acq_global" THEN GLock
  ELSE IF pc[p] = "acq_bucket" THEN Hash(a_blockno[p])
  ELSE IF pc[p] \in {"brelse_acq", "bpin_acq", "bunpin_acq"}
       THEN Hash(blockno[bp[p]])
  ELSE IF /\ pc[p] = "lru_scan" /\ bp[p] = NBUF + 1 /\ lru[p] # NULL
          /\ Hash(blockno[lru[p]]) # Hash(a_blockno[p])
       THEN Hash(blockno[lru[p]])
  ELSE NoLock

\* The thread that holds the lock q waits for, 0 when q waits for no lock
\* or the lock is free.
Waitee(q) == IF Wants(q) = NoLock THEN 0 ELSE Holder(Wants(q))

\* Thread p is reached from thread q along the waits in at most fuel steps.
RECURSIVE WaitChain(_, _, _)
WaitChain(p, q, fuel) ==
  /\ fuel > 0
  /\ Waitee(q) # 0
  /\ (Waitee(q) = p \/ WaitChain(p, Waitee(q), fuel - 1))

BucketsHeld(p) == {i \in Buckets : bucket_lock[i] = p}

\* C17: a thread at the acquire of bcache.lock holds no spin-lock; at the
\* acquire of bucket[hash_n].lock in the slow path it holds bcache.lock and
\* no bucket lock; a thread takes a bucket lock while it holds another
\* spin-lock only when it holds bcache.lock and bucket[hash_n].lock, and no
\* thread holds more than these two bucket locks; and no threads wait for
\* spin-locks in a cycle.
C17_LockOrderNoCycle ==
  \A p \in Procs :
    /\ Wants(p) = GLock => ~HoldsSpin(p)
    /\ pc[p] = "acq_bucket" => (bcache_lock = p /\ BucketsHeld(p) = {})
    /\ (Wants(p) \in Buckets /\ HoldsSpin(p)) =>
         /\ bcache_lock = p
         /\ (pc[p] = "lru_scan" =>
               BucketsHeld(p) = {Hash(a_blockno[p])})
    /\ Cardinality(BucketsHeld(p)) >= 2 =>
         /\ bcache_lock = p
         /\ BucketsHeld(p) = {Hash(a_blockno[p]), lru_hash_n[p]}
    /\ ~WaitChain(p, p, NPROC)

\* bget holds bcache.lock and the lock of the bucket asked for and is at
\* the acquire of the victim's bucket lock, which the other thread holds
\* for its fast-path scan.
C17_Witness ==
  \E p \in Procs : \E q \in Procs \ {p} :
    /\ pc[p] = "lru_scan"
    /\ Wants(p) \in Buckets
    /\ bcache_lock = p
    /\ Waitee(p) = q
    /\ pc[q] = "scan1"

\* The positions of a thread inside bread.
BreadPcs ==
  {"scan1", "acq_global", "acq_bucket", "scan2", "lru_scan", "lru_cmp",
   "lru_cmp_l", "lru_cmp_b", "recheck", "rebind", "rel_global", "sleep",
   "bread", "disk"}

\* The callers give back what they took: no thread keeps a buffer it got
\* from bread, or a pin, for ever.
CallersRelease ==
  \A q \in Procs : \A b \in Bufs :
    []<>(b \notin HeldBufs(q) /\ pins[q][b] = 0)

\* C18: when the callers give back what they took, a thread that is in
\* bread is eventually out of it: the call has returned, or it has
\* panicked.
C18_BreadCompletes ==
  CallersRelease =>
    \A p \in Procs : (pc[p] \in BreadPcs) ~> (pc[p] \in {"idle", "panic"})

\* Thread p goes from position a to position b in this step.
Goes(p, a, b) == pc[p] = a /\ pc'[p] = b

\* C19: of all fields, sleep-locks and list pointers of all buffers, the
\* call of brelse(b) changes only b's sleep-lock, which it frees; the
\* critical section of brelse changes only b's refcnt, by -1, and then
\* only b's lu_time, which becomes the value of ticks that the call has
\* loaded in between; the critical sections of bpin and bunpin change only
\* b's refcnt, by +1 and -1; and waiting for the bucket lock, loading
\* ticks and entering bpin or bunpin change nothing.
C19_ReleasePinFrame ==
  [][\A p \in Procs :
       /\ Goes(p, "idle", "brelse_acq") =>
            /\ slk[bp'[p]] = p
            /\ slk' = [slk EXCEPT ![bp'[p]] = 0]
            /\ UNCHANGED <<dev, blockno, valid, refcnt, lu_time, next, prev>>
       /\ Goes(p, "brelse_dec", "brelse_stamp") =>
            /\ refcnt' = [refcnt EXCEPT ![bp[p]] = @ - 1]
            /\ UNCHANGED <<dev, blockno, valid, lu_time, slk, next, prev>>
       /\ Goes(p, "brelse_stamp", "brelse_store") =>
            /\ ticks_seen'[p] = ticks
            /\ UNCHANGED <<dev, blockno, valid, refcnt, lu_time, slk, next,
                           prev>>
       /\ Goes(p, "brelse_store", "idle") =>
            /\ lu_time' = [lu_time EXCEPT ![bp[p]] = ticks_seen[p]]
            /\ UNCHANGED <<dev, blockno, valid, refcnt, slk, next, prev>>
       /\ Goes(p, "bpin_inc", "idle") =>
            /\ refcnt' = [refcnt EXCEPT ![bp[p]] = @ + 1]
            /\ UNCHANGED <<dev, blockno, valid, lu_time, slk, next, prev>>
       /\ Goes(p, "bunpin_dec", "idle") =>
            /\ refcnt' = [refcnt EXCEPT ![bp[p]] = @ - 1]
            /\ UNCHANGED <<dev, blockno, valid, lu_time, slk, next, prev>>
       /\ (\/ Goes(p, "brelse_acq", "brelse_dec")
           \/ Goes(p, "idle", "bpin_acq") \/ Goes(p, "bpin_acq", "bpin_inc")
           \/ Goes(p, "idle", "bunpin_acq")
           \/ Goes(p, "bunpin_acq", "bunpin_dec")) =>
            UNCHANGED <<dev, blockno, valid, refcnt, lu_time, slk, next,
                        prev>>]_vars

\* A thread in brelse(b) has freed b's sleep-lock, dropped its reference
\* and loaded ticks = 0; the timer has ticked since, and the other thread
\* has released another buffer, stamped 1, before b is stamped.
C19_Witness ==
  \E q \in Procs : \E p \in Procs \ {q} : \E b \in Bufs :
    \E c \in Bufs \ {b} :
      /\ pc[q] = "brelse_store" /\ bp[q] = b
      /\ ticks_seen[q] = 0 /\ ticks = 1
      /\ slk[b] = 0 /\ refcnt[b] = 0
      /\ pc[p] = "idle"
      /\ bound[c] /\ refcnt[c] = 0 /\ lu_time[c] = 1

\* Number of threads at one of the positions S with b as their buffer.
At(S, b) == Cardinality({p \in Procs : pc[p] \in S /\ bp[p] = b})

\* References to b taken by bget and not yet dropped by brelse: the
\* callers that hold b, the bget calls that have counted themselves and
\* are on their way out of bread, the brelse calls that have not yet
\* decremented.
GetRefs(b) ==
  Cardinality({p \in Procs : b \in HeldBufs(p)})
  + At({"rel_global", "sleep", "bread", "disk"}, b)
  + At({"brelse_acq", "brelse_dec"}, b)

RECURSIVE SumPinsOf(_, _)
SumPinsOf(S, b) ==
  IF S = {} THEN 0
  ELSE LET p == CHOOSE q \in S : TRUE
       IN pins[p][b] + SumPinsOf(S \ {p}, b)

\* Pins on b that bpin has counted and bunpin has not yet dropped.
PinRefs(b) ==
  SumPinsOf(Procs, b) - At({"bpin_acq", "bpin_inc"}, b)
  + At({"bunpin_acq", "bunpin_dec"}, b)

\* C20: the refcnt of every buffer is the number of references taken by
\* bget and not yet dropped by brelse plus the number of pins taken by bpin
\* and not yet dropped by bunpin, and is never negative.
C20_RefcntCounts ==
  \A b \in Bufs :
    /\ refcnt[b] = GetRefs(b) + PinRefs(b)
    /\ refcnt[b] >= 0

\* A buffer bound by eviction that one thread holds and has pinned, while
\* the other thread has found it and waits for its sleep-lock.
C20_Witness ==
  \E p \in Procs : \E q \in Procs \ {p} : \E b \in Bufs :
    /\ bound[b]
    /\ b \in HeldBufs(p) /\ pins[p][b] = 1 /\ pc[p] = "idle"
    /\ pc[q] = "sleep" /\ bp[q] = b
    /\ refcnt[b] = 3

=============================================================================
